---- MODULE Spec2Model ----
(***************************************************************************)
(* A model of banking_system.py: the in-memory ledger made of              *)
(* AccountRepository, TransactionRepository, AccountService,               *)
(* TransactionService and AccountStatement.                                *)
(*                                                                         *)
(* Money (Decimal) is modelled by integers; uuid4() is a choice from a     *)
(* small set of identifiers (so an id collision can happen); an account    *)
(* number (a str) is the sequence of its decimal digits.  A record's       *)
(* transaction_id and transaction_timestamp are left out.                  *)
(*                                                                         *)
(* Spec      the public operations called one at a time.                   *)
(* SpecConc  make_transaction run by several threads, one shared-memory    *)
(*           access per step (the code takes no lock).                     *)
(* SpecRepo  create_account and the two lookups of AccountRepository,      *)
(*           called one at a time.                                         *)
(* SpecConcCreate  create_account run by several threads.                  *)
(***************************************************************************)
EXTENDS Integers, Sequences, FiniteSets, TLC

\* ---------------------------------------------------------------- bounds
\* create_account is called at most MaxAccountNumber times.
MaxAccountNumber == 3
\* At most MaxTx TransactionRecords are stored over all accounts.
MaxTx == 2
\* Amounts range over -1 .. MaxAmount.
MaxAmount == 2

\* The values uuid4() yields for Account.account_id.
AccountIds == {"a1", "a2"}
\* The customer_id of the customers passed to create_account.
CustomerIds == {"c1", "c2"}
Amounts == (0 - 1)..MaxAmount
Threads == {"t1", "t2"}
NoId == "none"

\* ----------------------------------------------------- program constants
\* f"{n:010d}": the minimum width of the formatted account number.
FormatWidth == 10
\* Account.__post_init__: len(account_number) != 10.
AccountNumberLen == 10

TransactionType == {"DEPOSIT", "WITHDRAW"}

VARIABLES
    accounts,                \* AccountRepository.accounts: account_id -> Account
    customer_accounts,       \* AccountRepository.customer_accounts: customer_id -> list of accounts (by id)
    current_account_number,  \* AccountRepository.current_account_number
    transactions,            \* TransactionRepository.transactions: account_id -> list of records
    last,                    \* the call that has just returned, and how
    completed,               \* history: per account id, the make_transaction calls that succeeded
    issued,                  \* history: the numbers generate_account_number returned, in order
    threads,                 \* SpecConc: each thread's position and locals
    round_base               \* SpecConc: the balances when the running calls started

vars == <<accounts, customer_accounts, current_account_number, transactions,
          last, completed, issued, threads, round_base>>

\* ---------------------------------------------------------------- helpers
RECURSIVE SumLen(_, _)
SumLen(f, S) ==
    IF S = {} THEN 0
    ELSE LET x == CHOOSE y \in S : TRUE
         IN  Len(f[x]) + SumLen(f, S \ {x})

\* The number of records stored over all accounts.
TotalTx(txs) == SumLen(txs, DOMAIN txs)

\* dict.get(key, default)
Get(d, k, default) == IF k \in DOMAIN d THEN d[k] ELSE default

\* d[k] = v
Put(d, k, v) == [x \in (DOMAIN d) \cup {k} |-> IF x = k THEN v ELSE d[x]]

\* ------------------------------------------------------------- Account
RECURSIVE Digits(_)
Digits(n) == IF n < 10 THEN <<n>> ELSE Append(Digits(n \div 10), n % 10)

RECURSIVE ZeroPad(_, _)
ZeroPad(s, w) == IF Len(s) >= w THEN s ELSE ZeroPad(<<0>> \o s, w)

\* Mutant: the number is formatted without the zero padding (f"{n:d}").
FormatNoPad(n) == Digits(n)

\* f"{self.current_account_number:010d}"
FormatAccountNumber(n) == ZeroPad(Digits(n), FormatWidth)

\* The number a string of digits denotes.
RECURSIVE NumberValue(_)
NumberValue(s) ==
    IF s = <<>> THEN 0
    ELSE 10 * NumberValue(SubSeq(s, 1, Len(s) - 1)) + s[Len(s)]

\* Account.__post_init__: TRUE when the constructor does not raise.
PostInitOk(account_number) ==
    /\ \A i \in 1..Len(account_number) : account_number[i] \in 0..9
    /\ account_number # <<>>
    /\ Len(account_number) = AccountNumberLen

\* Account(customer_id, account_number): balance Decimal("0"), account_id uuid4().
NewAccount(customer_id, account_number, account_id) ==
    [customer_id |-> customer_id, account_number |-> account_number,
     balance |-> 0, account_id |-> account_id]

\* Mutant: deposit computes self.balance + amount and drops the result.
DepositDropsAmount(balance, amount) ==
    IF amount < 0
    THEN [outcome |-> "InvalidAmount", balance |-> balance]
    ELSE [outcome |-> "ok", balance |-> balance]

\* Account.deposit on a balance: the error raised ("ok": none) and the balance after.
Deposit(balance, amount) ==
    IF amount < 0
    THEN [outcome |-> "InvalidAmount", balance |-> balance]
    ELSE [outcome |-> "ok", balance |-> balance + amount]

\* Mutant: withdraw without the test amount > self.balance.
WithdrawNoFundsCheck(balance, amount) ==
    IF amount <= 0
    THEN [outcome |-> "InvalidAmount", balance |-> balance]
    ELSE [outcome |-> "ok", balance |-> balance - amount]

\* Mutant: withdraw subtracts before it tests amount > self.balance.
WithdrawDebitsOnFailure(balance, amount) ==
    IF amount <= 0
    THEN [outcome |-> "InvalidAmount", balance |-> balance]
    ELSE IF amount > balance
    THEN [outcome |-> "InsufficientFunds", balance |-> balance - amount]
    ELSE [outcome |-> "ok", balance |-> balance - amount]

\* Mutant: withdraw refuses the whole balance (amount >= self.balance).
WithdrawStrict(balance, amount) ==
    IF amount <= 0
    THEN [outcome |-> "InvalidAmount", balance |-> balance]
    ELSE IF amount >= balance
    THEN [outcome |-> "InsufficientFunds", balance |-> balance]
    ELSE [outcome |-> "ok", balance |-> balance - amount]

\* Account.withdraw on a balance.
Withdraw(balance, amount) ==
    IF amount <= 0
    THEN [outcome |-> "InvalidAmount", balance |-> balance]
    ELSE IF amount > balance
    THEN [outcome |-> "InsufficientFunds", balance |-> balance]
    ELSE [outcome |-> "ok", balance |-> balance - amount]

\* --------------------------------------------------- AccountRepository
\* Mutant: generate_account_number without the increment.
NextAccountNumberStuck(n) == n

\* generate_account_number: the counter after self.current_account_number += 1.
NextAccountNumber(n) == n + 1

\* find_account_by_id: the error raised (KeyError) and the account returned.
FindAccountByIdOf(accs, account_id) ==
    IF account_id \notin DOMAIN accs
    THEN [outcome |-> "AccountNotFound", ret |-> <<>>]
    ELSE [outcome |-> "ok", ret |-> <<accs[account_id]>>]

\* Mutant: find_accounts_by_customer_id uses setdefault(customer_id, []).
FindAccountsSetDefault(cust_accs, customer_id) ==
    [ret |-> Get(cust_accs, customer_id, <<>>),
     customer_accounts |-> Put(cust_accs, customer_id, Get(cust_accs, customer_id, <<>>))]

\* find_accounts_by_customer_id: the list returned and the index after.
FindAccountsByCustomerIdOf(cust_accs, customer_id) ==
    [ret |-> Get(cust_accs, customer_id, <<>>), customer_accounts |-> cust_accs]

\* Mutant: save_account indexes the account by id only.
SaveAccountSkipsList(accs, cust_accs, account) ==
    IF account.account_id \in DOMAIN accs
    THEN [outcome |-> "DuplicateAccount", accounts |-> accs, customer_accounts |-> cust_accs]
    ELSE [outcome |-> "ok",
          accounts |-> Put(accs, account.account_id, account),
          customer_accounts |-> cust_accs]

\* Mutant: save_account extends the customer's list before it tests the id.
SaveAccountIndexFirst(accs, cust_accs, account) ==
    LET lists == Put(cust_accs, account.customer_id,
                     Append(Get(cust_accs, account.customer_id, <<>>), account.account_id))
    IN  IF account.account_id \in DOMAIN accs
        THEN [outcome |-> "DuplicateAccount", accounts |-> accs, customer_accounts |-> lists]
        ELSE [outcome |-> "ok",
              accounts |-> Put(accs, account.account_id, account),
              customer_accounts |-> lists]

\* save_account: the error raised and both indices after.
SaveAccount(accs, cust_accs, account) ==
    IF account.account_id \in DOMAIN accs
    THEN [outcome |-> "DuplicateAccount", accounts |-> accs, customer_accounts |-> cust_accs]
    ELSE [outcome |-> "ok",
          accounts |-> Put(accs, account.account_id, account),
          customer_accounts |->
              Put(cust_accs, account.customer_id,
                  Append(Get(cust_accs, account.customer_id, <<>>), account.account_id))]

\* ------------------------------------------------------ AccountService
\* Mutant: create_account gives the number back when save_account fails.
CreateAccountRollback(accs, cust_accs, counter, customer_id, account_id) ==
    LET n == NextAccountNumber(counter)
        account_number == FormatAccountNumber(n)
        s == SaveAccount(accs, cust_accs, NewAccount(customer_id, account_number, account_id))
    IN  [outcome |-> s.outcome, accounts |-> s.accounts,
         customer_accounts |-> s.customer_accounts,
         counter |-> IF s.outcome = "ok" THEN n ELSE counter,
         account_number |-> account_number]

\* create_account: the error raised, the repository after and the number generated.
\* An exception of Account() or of save_account leaves the counter incremented.
CreateAccountResult(accs, cust_accs, counter, customer_id, account_id) ==
    LET n == NextAccountNumber(counter)
        account_number == FormatAccountNumber(n)
    IN  IF ~PostInitOk(account_number)
        THEN [outcome |-> "InvalidAccountNumber", accounts |-> accs,
              customer_accounts |-> cust_accs, counter |-> n,
              account_number |-> account_number]
        ELSE LET s == SaveAccount(accs, cust_accs,
                                  NewAccount(customer_id, account_number, account_id))
             IN  [outcome |-> s.outcome, accounts |-> s.accounts,
                  customer_accounts |-> s.customer_accounts, counter |-> n,
                  account_number |-> account_number]

\* ----------------------------------------------- TransactionRepository
\* Mutant: get_transactions gives an empty list for an account with no history.
GetTransactionsOrEmpty(txs, account_id) ==
    [outcome |-> "ok", ret |-> Get(txs, account_id, <<>>)]

\* get_transactions: the error raised and the list returned.
GetTransactionsOf(txs, account_id) ==
    IF account_id \notin DOMAIN txs
    THEN [outcome |-> "NoTransactions", ret |-> <<>>]
    ELSE [outcome |-> "ok", ret |-> txs[account_id]]

\* Mutant: store_transaction inserts the record at the head of the list.
StoreTransactionPrepend(txs, record) ==
    Put(txs, record.account_id, <<record>> \o Get(txs, record.account_id, <<>>))

\* store_transaction: the dict after.
StoreTransaction(txs, record) ==
    LET account_id == record.account_id
        txs1 == IF account_id \notin DOMAIN txs THEN Put(txs, account_id, <<>>) ELSE txs
    IN  [txs1 EXCEPT ![account_id] = Append(@, record)]

\* -------------------------------------------------- TransactionService
CreateTransactionRecord(account_id, amount, type) ==
    [account_id |-> account_id, amount |-> amount, type |-> type]

\* Mutant: balance is kept on the class, so a change shows on every account.
ProcessTransactionSharedBalance(accs, account_id, amount, type) ==
    IF amount < 0
    THEN [outcome |-> "InvalidAmount", accounts |-> accs]
    ELSE IF account_id \notin DOMAIN accs
    THEN [outcome |-> "AccountNotFound", accounts |-> accs]
    ELSE LET w == IF type = "DEPOSIT"
                  THEN Deposit(accs[account_id].balance, amount)
                  ELSE Withdraw(accs[account_id].balance, amount)
         IN  [outcome |-> w.outcome,
              accounts |-> [a \in DOMAIN accs |-> [accs[a] EXCEPT !.balance = w.balance]]]

\* Mutant: _process_transaction looks the account up before it tests the amount.
ProcessTransactionLookupFirst(accs, account_id, amount, type) ==
    IF account_id \notin DOMAIN accs
    THEN [outcome |-> "AccountNotFound", accounts |-> accs]
    ELSE IF amount < 0
    THEN [outcome |-> "InvalidAmount", accounts |-> accs]
    ELSE LET w == IF type = "DEPOSIT"
                  THEN Deposit(accs[account_id].balance, amount)
                  ELSE Withdraw(accs[account_id].balance, amount)
         IN  [outcome |-> w.outcome,
              accounts |-> [accs EXCEPT ![account_id].balance = w.balance]]

\* _process_transaction: the error raised and the accounts after.
ProcessTransaction(accs, account_id, amount, type) ==
    IF amount < 0
    THEN [outcome |-> "InvalidAmount", accounts |-> accs]
    ELSE IF account_id \notin DOMAIN accs
    THEN [outcome |-> "AccountNotFound", accounts |-> accs]
    ELSE LET d == IF type = "DEPOSIT"
                  THEN Deposit(accs[account_id].balance, amount)
                  ELSE [outcome |-> "ok", balance |-> accs[account_id].balance]
             w == IF d.outcome = "ok" /\ type = "WITHDRAW"
                  THEN Withdraw(d.balance, amount)
                  ELSE d
         IN  [outcome |-> w.outcome,
              accounts |-> [accs EXCEPT ![account_id].balance = w.balance]]

\* ---------------------------------------------------- AccountStatement
\* str(record): the type and the amount are rendered, the ids are not.
Render(record) == <<record.type, record.amount>>

\* generate_account_statement: one rendered line per record, in the list's order.
Statement(records) == [i \in 1..Len(records) |-> Render(records[i])]

\* ----------------------------------------------------------------- state
Call(op, id, cust, amount, kind, outcome, ret) ==
    [op |-> op, id |-> id, cust |-> cust, amount |-> amount, kind |-> kind,
     outcome |-> outcome, ret |-> ret]

IdleThread ==
    [pc |-> "idle", id |-> NoId, amount |-> 0, kind |-> "DEPOSIT",
     tmp |-> 0, outcome |-> "none"]

Init ==
    /\ accounts = <<>>
    /\ customer_accounts = <<>>
    /\ current_account_number = 0
    /\ transactions = <<>>
    /\ last = Call("init", NoId, NoId, 0, "DEPOSIT", "ok", <<>>)
    /\ completed = [a \in AccountIds |-> 0]
    /\ issued = <<>>
    /\ threads = [t \in Threads |-> IdleThread]
    /\ round_base = <<>>

\* ------------------------------------------------ operations, one at a time
\* AccountService.create_account(customer); uuid4() yields account_id.
CreateAccount(customer_id, account_id) ==
    /\ current_account_number < MaxAccountNumber
    /\ LET r == CreateAccountResult(accounts, customer_accounts, current_account_number,
                                    customer_id, account_id)
       IN  /\ current_account_number' = r.counter
           /\ issued' = Append(issued, r.account_number)
           /\ accounts' = r.accounts
           /\ customer_accounts' = r.customer_accounts
           /\ last' = Call("create_account", account_id, customer_id, 0, "DEPOSIT",
                           r.outcome, r.account_number)
    /\ UNCHANGED <<transactions, completed, threads, round_base>>

\* TransactionService.make_transaction(account_id, amount, transaction_type).
MakeTransaction(account_id, amount, type) ==
    LET p == ProcessTransaction(accounts, account_id, amount, type)
    IN  /\ p.outcome = "ok" => TotalTx(transactions) < MaxTx
        /\ accounts' = p.accounts
        /\ IF p.outcome = "ok"
           THEN /\ transactions' =
                       StoreTransaction(transactions,
                                        CreateTransactionRecord(account_id, amount, type))
                /\ completed' = [completed EXCEPT ![account_id] = @ + 1]
           ELSE UNCHANGED <<transactions, completed>>
        /\ last' = Call("make_transaction", account_id, NoId, amount, type, p.outcome, <<>>)
        /\ UNCHANGED <<customer_accounts, current_account_number, issued, threads, round_base>>

\* TransactionRepository.get_transactions(account_id).
GetTransactions(account_id) ==
    LET g == GetTransactionsOf(transactions, account_id)
    IN  /\ last' = Call("get_transactions", account_id, NoId, 0, "DEPOSIT", g.outcome, g.ret)
        /\ UNCHANGED <<accounts, customer_accounts, current_account_number, transactions,
                       completed, issued, threads, round_base>>

\* AccountStatement.generate_account_statement(account_id).
GenerateAccountStatement(account_id) ==
    LET g == GetTransactionsOf(transactions, account_id)
    IN  /\ last' = Call("generate_account_statement", account_id, NoId, 0, "DEPOSIT",
                        g.outcome, IF g.outcome = "ok" THEN Statement(g.ret) ELSE <<>>)
        /\ UNCHANGED <<accounts, customer_accounts, current_account_number, transactions,
                       completed, issued, threads, round_base>>

\* AccountRepository.find_account_by_id(account_id).
FindAccountById(account_id) ==
    LET f == FindAccountByIdOf(accounts, account_id)
    IN  /\ last' = Call("find_account_by_id", account_id, NoId, 0, "DEPOSIT", f.outcome, f.ret)
        /\ UNCHANGED <<accounts, customer_accounts, current_account_number, transactions,
                       completed, issued, threads, round_base>>

\* AccountRepository.find_accounts_by_customer_id(customer_id).
FindAccountsByCustomerId(customer_id) ==
    LET f == FindAccountsByCustomerIdOf(customer_accounts, customer_id)
    IN  /\ customer_accounts' = f.customer_accounts
        /\ last' = Call("find_accounts_by_customer_id", NoId, customer_id, 0, "DEPOSIT",
                        "ok", f.ret)
        /\ UNCHANGED <<accounts, current_account_number, transactions,
                       completed, issued, threads, round_base>>

Next ==
    \/ \E c \in CustomerIds, a \in AccountIds : CreateAccount(c, a)
    \/ \E a \in AccountIds, m \in Amounts, k \in TransactionType : MakeTransaction(a, m, k)
    \/ \E a \in AccountIds : GetTransactions(a)
    \/ \E a \in AccountIds : GenerateAccountStatement(a)

Spec == Init /\ [][Next]_vars

\* The repository alone: accounts are opened and looked up, one call at a time.
NextRepo ==
    \/ \E c \in CustomerIds, a \in AccountIds : CreateAccount(c, a)
    \/ \E a \in AccountIds : FindAccountById(a)
    \/ \E c \in CustomerIds : FindAccountsByCustomerId(c)

SpecRepo == Init /\ [][NextRepo]_vars

\* ------------------------------------ make_transaction, one access per step
InFlight == {t \in Threads : threads[t].pc \notin {"idle", "done"}}

Finish(t, outcome) == [threads EXCEPT ![t].pc = "done", ![t].outcome = outcome]

Goto(t, pc) == [threads EXCEPT ![t].pc = pc]

\* A thread enters make_transaction; _process_transaction tests amount < 0.
Begin(t, account_id, amount, type) ==
    /\ threads[t].pc = "idle"
    /\ TotalTx(transactions) + Cardinality(InFlight) < MaxTx
    /\ round_base' = IF \A u \in Threads : threads[u].pc = "idle"
                     THEN [a \in DOMAIN accounts |-> accounts[a].balance]
                     ELSE round_base
    /\ threads' = [threads EXCEPT ![t] =
                     [pc |-> IF amount < 0 THEN "done" ELSE "find",
                      id |-> account_id, amount |-> amount, kind |-> type, tmp |-> 0,
                      outcome |-> IF amount < 0 THEN "InvalidAmount" ELSE "none"]]
    /\ UNCHANGED <<accounts, customer_accounts, current_account_number, transactions,
                   last, completed, issued>>

\* find_account_by_id, then the tests of deposit or withdraw on the amount alone.
Find(t) ==
    LET th == threads[t]
    IN  /\ th.pc = "find"
        /\ threads' =
             IF th.id \notin DOMAIN accounts THEN Finish(t, "AccountNotFound")
             ELSE IF th.kind = "DEPOSIT"
             THEN (IF Deposit(0, th.amount).outcome # "ok"
                   THEN Finish(t, Deposit(0, th.amount).outcome)
                   ELSE Goto(t, "dep_read"))
             ELSE (IF th.amount <= 0 THEN Finish(t, "InvalidAmount")
                   ELSE Goto(t, "wd_check"))
        /\ UNCHANGED <<accounts, customer_accounts, current_account_number, transactions,
                       last, completed, issued, round_base>>

\* deposit, self.balance += amount: the load of self.balance.
DepRead(t) ==
    /\ threads[t].pc = "dep_read"
    /\ threads' = [threads EXCEPT ![t].pc = "dep_write",
                                  ![t].tmp = accounts[threads[t].id].balance]
    /\ UNCHANGED <<accounts, customer_accounts, current_account_number, transactions,
                   last, completed, issued, round_base>>

\* deposit, self.balance += amount: the store.
DepWrite(t) ==
    /\ threads[t].pc = "dep_write"
    /\ accounts' = [accounts EXCEPT ![threads[t].id].balance =
                                        threads[t].tmp + threads[t].amount]
    /\ threads' = Goto(t, "st_check")
    /\ UNCHANGED <<customer_accounts, current_account_number, transactions,
                   last, completed, issued, round_base>>

\* withdraw: if amount > self.balance.
WdCheck(t) ==
    /\ threads[t].pc = "wd_check"
    /\ threads' = IF threads[t].amount > accounts[threads[t].id].balance
                  THEN Finish(t, "InsufficientFunds")
                  ELSE Goto(t, "wd_read")
    /\ UNCHANGED <<accounts, customer_accounts, current_account_number, transactions,
                   last, completed, issued, round_base>>

\* withdraw, self.balance -= amount: the load of self.balance.
WdRead(t) ==
    /\ threads[t].pc = "wd_read"
    /\ threads' = [threads EXCEPT ![t].pc = "wd_write",
                                  ![t].tmp = accounts[threads[t].id].balance]
    /\ UNCHANGED <<accounts, customer_accounts, current_account_number, transactions,
                   last, completed, issued, round_base>>

\* withdraw, self.balance -= amount: the store.
WdWrite(t) ==
    /\ threads[t].pc = "wd_write"
    /\ accounts' = [accounts EXCEPT ![threads[t].id].balance =
                                        threads[t].tmp - threads[t].amount]
    /\ threads' = Goto(t, "st_check")
    /\ UNCHANGED <<customer_accounts, current_account_number, transactions,
                   last, completed, issued, round_base>>

\* store_transaction: if account_id not in self.transactions.
StCheck(t) ==
    /\ threads[t].pc = "st_check"
    /\ threads' = IF threads[t].id \notin DOMAIN transactions
                  THEN Goto(t, "st_init")
                  ELSE Goto(t, "st_append")
    /\ UNCHANGED <<accounts, customer_accounts, current_account_number, transactions,
                   last, completed, issued, round_base>>

\* store_transaction: self.transactions[account_id] = [].
StInit(t) ==
    /\ threads[t].pc = "st_init"
    /\ transactions' = Put(transactions, threads[t].id, <<>>)
    /\ threads' = Goto(t, "st_append")
    /\ UNCHANGED <<accounts, customer_accounts, current_account_number,
                   last, completed, issued, round_base>>

\* store_transaction: self.transactions[account_id].append(record); the call returns.
StAppend(t) ==
    LET th == threads[t]
    IN  /\ th.pc = "st_append"
        /\ transactions' = [transactions EXCEPT ![th.id] =
                               Append(@, CreateTransactionRecord(th.id, th.amount, th.kind))]
        /\ completed' = [completed EXCEPT ![th.id] = @ + 1]
        /\ threads' = Finish(t, "ok")
        /\ UNCHANGED <<accounts, customer_accounts, current_account_number,
                       last, issued, round_base>>

\* The callers are joined: every call has returned, and the threads are free again.
Join ==
    /\ InFlight = {}
    /\ \E t \in Threads : threads[t].pc = "done"
    /\ threads' = [t \in Threads |-> IdleThread]
    /\ UNCHANGED <<accounts, customer_accounts, current_account_number, transactions,
                   last, completed, issued, round_base>>

\* Accounts are opened before the first concurrent call.
Setup(customer_id, account_id) ==
    /\ \A t \in Threads : threads[t].pc = "idle"
    /\ transactions = <<>>
    /\ round_base = <<>>
    /\ CreateAccount(customer_id, account_id)

NextConc ==
    \/ \E a \in AccountIds : Setup("c1", a)
    \/ \E t \in Threads, a \in AccountIds, m \in Amounts, k \in TransactionType :
           Begin(t, a, m, k)
    \/ \E t \in Threads : Find(t)
    \/ \E t \in Threads : DepRead(t)
    \/ \E t \in Threads : DepWrite(t)
    \/ \E t \in Threads : WdCheck(t)
    \/ \E t \in Threads : WdRead(t)
    \/ \E t \in Threads : WdWrite(t)
    \/ \E t \in Threads : StCheck(t)
    \/ \E t \in Threads : StInit(t)
    \/ \E t \in Threads : StAppend(t)
    \/ Join

SpecConc == Init /\ [][NextConc]_vars

\* -------------------------------------- create_account, one access per step
\* A thread enters create_account for customer "c1"; uuid4() will yield account_id.
CBegin(t, account_id) ==
    /\ threads[t].pc = "idle"
    /\ Len(issued) + Cardinality(InFlight) < MaxAccountNumber
    /\ threads' = [threads EXCEPT ![t] = [IdleThread EXCEPT !.pc = "c_load",
                                                             !.id = account_id]]
    /\ UNCHANGED <<accounts, customer_accounts, current_account_number, transactions,
                   last, completed, issued, round_base>>

\* generate_account_number, self.current_account_number += 1: the load.
CLoad(t) ==
    /\ threads[t].pc = "c_load"
    /\ threads' = [threads EXCEPT ![t].pc = "c_store", ![t].tmp = current_account_number]
    /\ UNCHANGED <<accounts, customer_accounts, current_account_number, transactions,
                   last, completed, issued, round_base>>

\* generate_account_number, self.current_account_number += 1: the store.
CStore(t) ==
    /\ threads[t].pc = "c_store"
    /\ current_account_number' = NextAccountNumber(threads[t].tmp)
    /\ threads' = Goto(t, "c_format")
    /\ UNCHANGED <<accounts, customer_accounts, transactions,
                   last, completed, issued, round_base>>

\* generate_account_number: the counter is read again and formatted; tmp keeps the
\* value read, of which the account number is the format.
CFormat(t) ==
    /\ threads[t].pc = "c_format"
    /\ issued' = Append(issued, FormatAccountNumber(current_account_number))
    /\ threads' = [threads EXCEPT ![t].pc = "c_save", ![t].tmp = current_account_number]
    /\ UNCHANGED <<accounts, customer_accounts, current_account_number, transactions,
                   last, completed, round_base>>

\* Account(...) and save_account; the call returns or raises.
CSave(t) ==
    LET account_number == FormatAccountNumber(threads[t].tmp)
        s == SaveAccount(accounts, customer_accounts,
                         NewAccount("c1", account_number, threads[t].id))
    IN  /\ threads[t].pc = "c_save"
        /\ IF ~PostInitOk(account_number)
           THEN /\ threads' = Finish(t, "InvalidAccountNumber")
                /\ UNCHANGED <<accounts, customer_accounts>>
           ELSE /\ accounts' = s.accounts
                /\ customer_accounts' = s.customer_accounts
                /\ threads' = Finish(t, s.outcome)
        /\ UNCHANGED <<current_account_number, transactions,
                       last, completed, issued, round_base>>

NextConcCreate ==
    \/ \E t \in Threads, a \in AccountIds : CBegin(t, a)
    \/ \E t \in Threads : CLoad(t)
    \/ \E t \in Threads : CStore(t)
    \/ \E t \in Threads : CFormat(t)
    \/ \E t \in Threads : CSave(t)
    \/ Join

SpecConcCreate == Init /\ [][NextConcCreate]_vars

\* ================================================================ claims
IsPrefix(s, t) == Len(s) <= Len(t) /\ SubSeq(t, 1, Len(s)) = s

\* The DEPOSIT amounts minus the WITHDRAW amounts of a history.
RECURSIVE LedgerSum(_)
LedgerSum(records) ==
    IF records = <<>> THEN 0
    ELSE LET r == records[Len(records)]
         IN  LedgerSum(SubSeq(records, 1, Len(records) - 1))
               + (IF r.type = "DEPOSIT" THEN r.amount ELSE 0 - r.amount)

History(a) == Get(transactions, a, <<>>)

\* C1: after any sequence of create_account and make_transaction calls, failing
\* ones included, every account stored in AccountRepository has balance >= 0.
C1_BalanceNonNegative == \A a \in DOMAIN accounts : accounts[a].balance >= 0

\* C1's case: a withdrawal has been refused on an account that holds money.
C1_Witness ==
    /\ last.op = "make_transaction"
    /\ last.kind = "WITHDRAW"
    /\ last.outcome = "InsufficientFunds"
    /\ accounts[last.id].balance > 0

\* What one make_transaction step, whose call and outcome are last', must do.
C2_MakeTransactionStep ==
    IF last'.outcome = "ok"
    THEN /\ last'.id \in DOMAIN accounts
         /\ last'.id \in DOMAIN transactions'
         /\ Len(transactions'[last'.id]) = Len(History(last'.id)) + 1
         /\ transactions'[last'.id] =
                Append(History(last'.id),
                       [account_id |-> last'.id, amount |-> last'.amount,
                        type |-> last'.kind])
         /\ accounts'[last'.id].balance =
                accounts[last'.id].balance
                  + (IF last'.kind = "DEPOSIT" THEN last'.amount ELSE 0 - last'.amount)
    ELSE /\ accounts' = accounts
         /\ transactions' = transactions

\* C2: a make_transaction call that returns appends exactly one record (that
\* account_id, amount and kind) to the account's history and moves the balance by
\* +amount (DEPOSIT) or -amount (WITHDRAW); a call that fails leaves the balance
\* and the history of every account unchanged.
C2_AllOrNothing == [][last'.op = "make_transaction" => C2_MakeTransactionStep]_vars

\* C2's case: a call has failed on an account that already has a history.
C2_Witness ==
    /\ last.op = "make_transaction"
    /\ last.outcome = "InsufficientFunds"
    /\ History(last.id) # <<>>

\* C3: in no state, the intermediate ones of a running make_transaction included,
\* does an account's balance reflect a deposit or withdrawal whose record is not in
\* the account's history, nor the history a record the balance does not reflect.
C3_BalanceAndHistoryAgree ==
    \A a \in DOMAIN accounts : accounts[a].balance = LedgerSum(History(a))

\* One call run alone on a balance: how it ends and the balance after.
SerialStep(balance, amount, type) ==
    IF amount < 0 THEN [outcome |-> "InvalidAmount", balance |-> balance]
    ELSE IF type = "DEPOSIT" THEN Deposit(balance, amount)
    ELSE Withdraw(balance, amount)

Orders ==
    {o \in [1..Cardinality(Threads) -> Threads] :
        \A i, j \in DOMAIN o : i # j => o[i] # o[j]}

\* The balance after the first i calls of the order o, run one after the other.
RECURSIVE SerialBalance(_, _, _)
SerialBalance(o, i, b0) ==
    IF i = 0 THEN b0
    ELSE SerialStep(SerialBalance(o, i - 1, b0),
                    threads[o[i]].amount, threads[o[i]].kind).balance

SerialMatches(o, a) ==
    /\ \A i \in DOMAIN o :
          SerialStep(SerialBalance(o, i - 1, round_base[a]),
                     threads[o[i]].amount, threads[o[i]].kind).outcome
            = threads[o[i]].outcome
    /\ SerialBalance(o, Len(o), round_base[a]) = accounts[a].balance

\* C4: when concurrent make_transaction calls on one account have all returned,
\* the balance and each call's outcome are those of the calls run one after the
\* other in some order.
C4_Serializable ==
    \A a \in DOMAIN round_base :
        (\A t \in Threads : threads[t].pc = "done" /\ threads[t].id = a)
            => \E o \in Orders : SerialMatches(o, a)

\* C5: every stored account's account_number is exactly 10 decimal digits, and no
\* two stored accounts share an account_number.
C5_AccountNumbers ==
    /\ \A a \in DOMAIN accounts :
          /\ Len(accounts[a].account_number) = 10
          /\ \A i \in 1..10 : accounts[a].account_number[i] \in 0..9
    /\ \A a, b \in DOMAIN accounts :
          a # b => accounts[a].account_number # accounts[b].account_number

\* C5's case: two accounts are stored.
C5_Witness ==
    /\ last.op = "create_account"
    /\ \E a, b \in DOMAIN accounts : a # b

\* What every step must do to the histories, and what the reads return.
C6_Step ==
    /\ \A a \in DOMAIN transactions :
          a \in DOMAIN transactions' /\ IsPrefix(transactions[a], transactions'[a])
    /\ (last'.op = "make_transaction" /\ last'.outcome = "ok") =>
          /\ transactions'[last'.id][Len(transactions'[last'.id])] =
                 [account_id |-> last'.id, amount |-> last'.amount, type |-> last'.kind]
          /\ IsPrefix(History(last'.id), transactions'[last'.id])
          /\ Len(transactions'[last'.id]) = Len(History(last'.id)) + 1
    /\ (last'.op = "get_transactions" /\ last'.outcome = "ok") =>
          last'.ret = transactions[last'.id]
    /\ (last'.op = "generate_account_statement" /\ last'.outcome = "ok") =>
          /\ Len(last'.ret) = Len(transactions[last'.id])
          /\ \A i \in 1..Len(last'.ret) :
                last'.ret[i] = <<transactions[last'.id][i].type,
                                 transactions[last'.id][i].amount>>

\* C6: the history is append-only (after any operation the old history of each
\* account is a prefix of the new one), the record of a make_transaction that
\* returns is the last of its account's history, and get_transactions and
\* generate_account_statement give the records in the history's order.
C6_AppendOnlyInOrder == [][C6_Step]_vars

\* C6's case: a statement of two different records has been generated.
C6_Witness ==
    /\ last.op = "generate_account_statement"
    /\ Len(last.ret) = 2
    /\ last.ret[1] # last.ret[2]

\* C7: get_transactions and generate_account_statement fail with NoTransactions
\* exactly when no make_transaction has succeeded for the account, and otherwise
\* return the whole, non-empty history.
C7_NoTransactionsIffNoneSucceeded ==
    last.op \in {"get_transactions", "generate_account_statement"} =>
        /\ last.outcome \in {"ok", "NoTransactions"}
        /\ last.outcome = "NoTransactions" <=> completed[last.id] = 0
        /\ last.outcome = "ok" =>
              /\ last.ret # <<>>
              /\ Len(last.ret) = completed[last.id]

\* C7's case: the statement of a stored account with no history is refused while
\* another account has one.
C7_Witness ==
    /\ last.op = "generate_account_statement"
    /\ last.outcome = "NoTransactions"
    /\ last.id \in DOMAIN accounts
    /\ \E b \in DOMAIN accounts : completed[b] > 0

\* What the save_account of one create_account step must do.
C8_SaveStep ==
    IF last'.id \in DOMAIN accounts
    THEN /\ last'.outcome = "DuplicateAccount"
         /\ accounts' = accounts
         /\ customer_accounts' = customer_accounts
    ELSE /\ last'.outcome = "ok"
         /\ DOMAIN accounts' = DOMAIN accounts \cup {last'.id}
         /\ \A a \in DOMAIN accounts : accounts'[a] = accounts[a]
         /\ accounts'[last'.id].account_id = last'.id
         /\ accounts'[last'.id].customer_id = last'.cust
         /\ DOMAIN customer_accounts' = DOMAIN customer_accounts \cup {last'.cust}
         /\ customer_accounts'[last'.cust] =
                Append(Get(customer_accounts, last'.cust, <<>>), last'.id)
         /\ \A c \in DOMAIN customer_accounts :
                c # last'.cust => customer_accounts'[c] = customer_accounts[c]

\* C8: save_account fails with DuplicateAccount when the account_id is already
\* stored and then leaves both indices unchanged; otherwise it adds the account to
\* the by-id index and appends it to the end of its customer's list.
C8_SaveAccount ==
    [][(last'.op = "create_account" /\ last'.outcome # "InvalidAccountNumber")
          => C8_SaveStep]_vars

\* C8's case: an account whose id is stored under another customer was refused.
C8_Witness ==
    /\ last.op = "create_account"
    /\ last.outcome = "DuplicateAccount"
    /\ accounts[last.id].customer_id # last.cust

\* C9: the numbers generate_account_number returns are strictly increasing, so
\* none is reused, and a create_account that fails at save_account consumes its
\* number: the counter is the count of the numbers issued.
C9_NumbersIncrease ==
    /\ \A i, j \in 1..Len(issued) :
          i < j => NumberValue(issued[i]) < NumberValue(issued[j])
    /\ Len(issued) = current_account_number
    /\ \A a \in DOMAIN accounts : \E i \in 1..Len(issued) : issued[i] = accounts[a].account_number

\* C9's case: an account was created after a create_account that failed.
C9_Witness ==
    /\ last.op = "create_account"
    /\ last.outcome = "ok"
    /\ Cardinality(DOMAIN accounts) = 2
    /\ Len(issued) = 3

\* C10: deposit fails with InvalidAmount for every amount <= 0, zero included.
C10_DepositRejectsNonPositive ==
    (/\ last.op = "make_transaction"
     /\ last.kind = "DEPOSIT"
     /\ last.id \in DOMAIN accounts
     /\ last.amount <= 0) => last.outcome = "InvalidAmount"

\* C11: every TransactionRecord stored has a strictly positive amount.
C11_RecordAmountsPositive ==
    \A a \in DOMAIN transactions :
        \A i \in 1..Len(transactions[a]) : transactions[a][i].amount > 0

\* What a WITHDRAW step on a stored account of balance b must do.
C12_WithdrawStep ==
    LET b == accounts[last'.id].balance
        m == last'.amount
        unchanged == accounts' = accounts /\ transactions' = transactions
    IN  /\ last'.outcome = "ok" <=> (0 < m /\ m <= b)
        /\ last'.outcome = "ok" =>
              /\ accounts'[last'.id].balance = b - m
              /\ Len(transactions'[last'.id]) = Len(History(last'.id)) + 1
        /\ m <= 0 => last'.outcome = "InvalidAmount" /\ unchanged
        /\ m > b => last'.outcome = "InsufficientFunds" /\ unchanged

\* C12: withdraw(amount) on balance b succeeds exactly when 0 < amount <= b, giving
\* b - amount (the whole balance may be withdrawn); it fails with InvalidAmount when
\* amount <= 0 and with InsufficientFunds when amount > b, and then the balance
\* stays b and no record is appended.
C12_Withdraw ==
    [][(/\ last'.op = "make_transaction"
        /\ last'.kind = "WITHDRAW"
        /\ last'.id \in DOMAIN accounts) => C12_WithdrawStep]_vars

\* C12's case: the whole balance has been withdrawn.
C12_Witness ==
    /\ last.op = "make_transaction"
    /\ last.kind = "WITHDRAW"
    /\ last.outcome = "ok"
    /\ last.amount > 0
    /\ accounts[last.id].balance = 0

\* The stored accounts of a customer.
OwnedBy(c) == {a \in DOMAIN accounts : accounts[a].customer_id = c}

\* What a find_accounts_by_customer_id step must return and leave alone.
C13_FindStep ==
    LET ret == last'.ret
    IN  /\ {ret[i] : i \in 1..Len(ret)} = OwnedBy(last'.cust)
        /\ Len(ret) = Cardinality(OwnedBy(last'.cust))
        /\ \A i, j \in 1..Len(ret) :
              i < j => NumberValue(accounts[ret[i]].account_number)
                         < NumberValue(accounts[ret[j]].account_number)
        /\ OwnedBy(last'.cust) = {} => ret = <<>>
        /\ accounts' = accounts
        /\ customer_accounts' = customer_accounts
        /\ current_account_number' = current_account_number

\* C13: find_accounts_by_customer_id returns exactly the accounts saved for the
\* customer, in the order they were saved (the order of their account numbers), an
\* empty sequence for a customer with none, and leaves the repository unchanged:
\* no entry is created for the customer.
C13_FindAccountsByCustomer ==
    [][last'.op = "find_accounts_by_customer_id" => C13_FindStep]_vars

\* C13's case: a customer's two accounts were returned while another customer,
\* who has none, has no entry in the index.
C13_Witness ==
    /\ last.op = "find_accounts_by_customer_id"
    /\ Len(last.ret) = 2
    /\ \E c \in CustomerIds : c \notin DOMAIN customer_accounts

\* What the k-th create_account, k = Len(issued) + 1, must return and store when
\* the id of the new account is not stored yet.
C14_CreateStep ==
    LET k == Len(issued) + 1
        acc == accounts'[last'.id]
        list == customer_accounts'[last'.cust]
    IN  /\ last'.outcome = "ok"
        /\ last'.id \in DOMAIN accounts'
        /\ acc.balance = 0
        /\ acc.customer_id = last'.cust
        /\ acc.account_number = last'.ret
        /\ Len(acc.account_number) = 10
        /\ NumberValue(acc.account_number) = k
        /\ k = 1 => acc.account_number = <<0, 0, 0, 0, 0, 0, 0, 0, 0, 1>>
        /\ FindAccountByIdOf(accounts', last'.id) = [outcome |-> "ok", ret |-> <<acc>>]
        /\ last'.cust \in DOMAIN customer_accounts'
        /\ list[Len(list)] = last'.id

\* C14: the k-th create_account on a fresh repository returns an account of
\* balance 0, of the given customer, numbered k zero-padded to 10 digits; the
\* account is then found by find_account_by_id and is the last of its customer's
\* list.
C14_CreateAccount ==
    [][(last'.op = "create_account" /\ last'.id \notin DOMAIN accounts)
          => C14_CreateStep]_vars

\* C14's case: the third call created a customer's second account.
C14_Witness ==
    /\ last.op = "create_account"
    /\ last.outcome = "ok"
    /\ Len(issued) = 3
    /\ Len(customer_accounts[last.cust]) = 2

\* C15: concurrent create_account calls never give one account number to two
\* accounts: the accounts created have pairwise distinct numbers.
C15_DistinctNumbers ==
    \A t, u \in Threads :
        (/\ t # u
         /\ threads[t].pc = "done" /\ threads[t].outcome = "ok"
         /\ threads[u].pc = "done" /\ threads[u].outcome = "ok")
            => accounts[threads[t].id].account_number
                 # accounts[threads[u].id].account_number

\* C16: concurrent store_transaction calls lose no record: once all the calls have
\* returned, every successful call's record is in its account's history.
C16_NoRecordLost ==
    InFlight = {} =>
        \A a \in AccountIds :
            /\ Len(History(a)) = completed[a]
            /\ \A t \in Threads :
                  (threads[t].pc = "done" /\ threads[t].outcome = "ok" /\ threads[t].id = a)
                      => \E i \in 1..Len(History(a)) :
                            History(a)[i] = CreateTransactionRecord(a, threads[t].amount,
                                                                    threads[t].kind)

\* What a make_transaction step with a negative amount or an unknown account_id
\* must do.
C17_RejectStep ==
    /\ last'.amount < 0 => last'.outcome = "InvalidAmount"
    /\ (last'.amount >= 0 /\ last'.id \notin DOMAIN accounts)
          => last'.outcome = "AccountNotFound"
    /\ accounts' = accounts
    /\ transactions' = transactions
    /\ last'.id \notin DOMAIN accounts =>
          last'.id \notin DOMAIN accounts' /\ last'.id \notin DOMAIN transactions'

\* C17: make_transaction tests the amount, then looks the account up: a negative
\* amount fails with InvalidAmount even for an unknown account_id, a non-negative
\* amount with an unknown account_id fails with AccountNotFound, and in both cases
\* no account is created, no balance changes and no history entry is created.
C17_ValidationOrder ==
    [][(/\ last'.op = "make_transaction"
        /\ (last'.amount < 0 \/ last'.id \notin DOMAIN accounts)) => C17_RejectStep]_vars

\* C17's case: a negative amount on an unknown account_id was refused, while
\* another account is stored.
C17_Witness ==
    /\ last.op = "make_transaction"
    /\ last.amount < 0
    /\ last.id \notin DOMAIN accounts
    /\ last.outcome = "InvalidAmount"
    /\ accounts # <<>>

\* The sum of the amounts of the records of one type.
RECURSIVE SumOfType(_, _)
SumOfType(records, type) ==
    IF records = <<>> THEN 0
    ELSE SumOfType(Tail(records), type)
           + (IF Head(records).type = type THEN Head(records).amount ELSE 0)

\* C18: with the calls run one at a time, each account's balance is the sum of its
\* DEPOSIT records minus the sum of its WITHDRAW records (0 with no history).
C18_LedgerConsistent ==
    \A a \in DOMAIN accounts :
        /\ accounts[a].balance =
               SumOfType(History(a), "DEPOSIT") - SumOfType(History(a), "WITHDRAW")
        /\ a \notin DOMAIN transactions => accounts[a].balance = 0

\* C18's case: an account with a deposit and a smaller withdrawal.
C18_Witness ==
    \E a \in DOMAIN accounts :
        /\ accounts[a].balance > 0
        /\ SumOfType(History(a), "WITHDRAW") > 0

\* The positions of account a in the list of customer c.
PositionsIn(c, a) ==
    {i \in 1..Len(customer_accounts[c]) : customer_accounts[c][i] = a}

\* C19: the by-id index and the by-customer index hold the same accounts: every
\* account of the by-id index is exactly once in the list of its own customer and
\* in no other list, and every account of a list is in the by-id index.
C19_IndicesAgree ==
    /\ \A a \in DOMAIN accounts :
          /\ accounts[a].account_id = a
          /\ accounts[a].customer_id \in DOMAIN customer_accounts
          /\ \A c \in DOMAIN customer_accounts :
                Cardinality(PositionsIn(c, a))
                  = (IF c = accounts[a].customer_id THEN 1 ELSE 0)
    /\ \A c \in DOMAIN customer_accounts :
          \A i \in 1..Len(customer_accounts[c]) :
              customer_accounts[c][i] \in DOMAIN accounts

\* C19's case: two accounts are stored for two customers and a third
\* create_account has failed.
C19_Witness ==
    /\ last.op = "create_account"
    /\ last.outcome = "DuplicateAccount"
    /\ Cardinality(DOMAIN customer_accounts) = 2

\* What a make_transaction step on account last'.id must leave alone.
C20_FrameStep ==
    /\ DOMAIN accounts' = DOMAIN accounts
    /\ \A a \in DOMAIN accounts :
          /\ a # last'.id => accounts'[a] = accounts[a]
          /\ accounts'[a].customer_id = accounts[a].customer_id
          /\ accounts'[a].account_number = accounts[a].account_number
          /\ accounts'[a].account_id = accounts[a].account_id
    /\ DOMAIN transactions' \subseteq DOMAIN transactions \cup {last'.id}
    /\ \A a \in DOMAIN transactions :
          /\ a \in DOMAIN transactions'
          /\ a # last'.id => transactions'[a] = transactions[a]
    /\ customer_accounts' = customer_accounts
    /\ current_account_number' = current_account_number

\* C20: a make_transaction call on account A, whether it returns or raises, leaves
\* unchanged the balance and history of every other account, the set of stored
\* accounts, both AccountRepository indices and the account-number counter.
C20_MakeTransactionFrame == [][last'.op = "make_transaction" => C20_FrameStep]_vars

\* C20's case: a call on one account has returned while another account holds a
\* balance and a history.
C20_Witness ==
    /\ last.op = "make_transaction"
    /\ last.outcome = "ok"
    /\ \E b \in DOMAIN accounts :
          b # last.id /\ accounts[b].balance > 0 /\ History(b) # <<>>

====
